---- MODULE Spec2Model ----
(***************************************************************************)
(* The Clerk webhook endpoint (api/netlify/functions/clerk-webhook.ts) and *)
(* the User collection it reconciles, as a state machine.  A request is    *)
(* one run of `handler`; each `await` of the handler is one step, so that  *)
(* two function instances may interleave between awaits.  With it: the     *)
(* connection cache of connectDB (lib/database) and the user self-service  *)
(* endpoints PUT and DELETE (app/api/user/[id]/route.ts).                  *)
(***************************************************************************)
EXTENDS Integers, Sequences, FiniteSets, TLC

VARIABLES
    users,      \* the User collection: a set of documents
    log,        \* the ActivityLog collection: a sequence of entries
    nextId,     \* the next _id the store hands out
    received,   \* number of requests delivered so far; also the clock (ms)
    reqs,       \* per function instance: the request it is running / ran last
    cached,     \* connectDB: the process-wide cache {conn, promise}
    promises,   \* connectDB: the promises mongoose.connect(...).then(...) returned
    callers,    \* connectDB: where each caller of connectDB is
    jobs,       \* connectDB: the microtask queue (continuations ready to run)
    api,        \* the self-service request in progress / answered last
    web         \* the last call of the middleware, a guard or an admin route

vars ==
    <<users, log, nextId, received, reqs, cached, promises, callers, jobs, api, web>>

\* the state of connectDB
dbvars == <<cached, promises, callers, jobs>>

\* the state of the webhook endpoint other than the User collection
hookvars == <<log, nextId, reqs>>

----------------------------------------------------------------------------
(* Bounds and input sets *)

\* number of webhook requests delivered in one behaviour
MaxEvents == 3

\* function instances that may run at the same time
Instances == {"i1", "i2"}

ClerkIds == {"idp_1", "idp_2"}

\* e-mail addresses: lower-case, trimmed, well-formed, so that the schema's
\* setters leave them as they are and its validator accepts them
Emails == {"a@x.com", "b@x.com"}

\* email_addresses.find(...) found no entry with primary_email_address_id
NoPrimary == "none"

Undefined == "undefined"

SessionIds == {"sess_1"}

\* the four profile fields of a Clerk user payload, by the User path they feed
NameFields == {"firstName", "lastName", "username", "avatar"}

\* payload values of the profile fields: empty, or one non-empty string per field
Profiles ==
    { [firstName |-> "Ann", lastName |-> "",    username |-> "ann", avatar |-> ""],
      [firstName |-> "",    lastName |-> "Lee", username |-> "",    avatar |-> "img"] }

NoProfile == [firstName |-> "", lastName |-> "", username |-> "", avatar |-> ""]

----------------------------------------------------------------------------
(* JavaScript helpers *)

\* truthiness of a string-or-undefined value
Truthy(v) == v # "" /\ v # Undefined

\* a || b
Or(a, b) == IF Truthy(a) THEN a ELSE b

----------------------------------------------------------------------------
(* The User schema and the store (mongoose) *)

\* paths of UserSchema; { timestamps: true } adds createdAt and updatedAt
SchemaPaths ==
    {"clerkId", "email", "name", "role", "plan", "status", "createdAt", "updatedAt"}

\* mutant: the index on clerkId is not declared unique
NoUniquePaths == {}

\* paths of UserSchema that carry a unique index
UniquePaths == {"clerkId"}

\* the paths that hold a date (never undefined in a write of this program)
DatePaths == {"createdAt", "updatedAt"}

\* a schema is strict unless it says otherwise: paths it does not declare, and
\* undefined values, are dropped from what is written
StrictCast(data) ==
    [p \in {q \in DOMAIN data \cap SchemaPaths :
                q \in DatePaths \/ data[q] # Undefined} |-> data[p]]

\* reading a path of a document
Get(doc, p) == IF p \in DOMAIN doc THEN doc[p] ELSE Undefined

\* the result of a query that matched nothing
NoDoc == [_id |-> 0]

Found(doc) == doc._id # 0

\* BaseRepository.findOne: the documents a filter {path: val} matches (the
\* store returns one of them, or null when there is none)
FindOne(us, path, val) ==
    LET m == {d \in us : Get(d, path) = val}
    IN  IF m = {} THEN {NoDoc} ELSE m

\* $set of the cast update on one document
ApplyUpdate(doc, data) ==
    LET cd == StrictCast(data)
    IN  [p \in DOMAIN doc \cup DOMAIN cd |->
            IF p \in DOMAIN cd THEN cd[p] ELSE doc[p]]

\* E11000: the write would give two documents the same value on a unique path
DuplicateKey(us, doc) ==
    \E p \in UniquePaths : \E d \in us :
        /\ d._id # doc._id
        /\ p \in DOMAIN doc
        /\ Get(d, p) = doc[p]

\* the collection after a document is replaced by its updated version
Replace(us, old, new) == (us \ {old}) \cup {new}

----------------------------------------------------------------------------
(* Requests *)

NoEvent ==
    [type |-> "none", id |-> "none", email |-> NoPrimary, profile |-> NoProfile,
     updated_at |-> 0, session |-> "none"]

\* the webhook events Clerk sends: type tag and the payload fields consumed
UserEvents ==
    [type : {"user.created", "user.updated"}, id : ClerkIds,
     email : Emails, profile : Profiles, updated_at : {0}, session : {"none"}]
    \cup
    [type : {"user.created", "user.updated"}, id : ClerkIds,
     email : {NoPrimary}, profile : {NoProfile}, updated_at : {0}, session : {"none"}]

DeletedEvents ==
    [type : {"user.deleted"}, id : ClerkIds, email : {NoPrimary},
     profile : {NoProfile}, updated_at : {0}, session : {"none"}]

SessionEvents ==
    [type : {"session.created", "session.removed"}, id : ClerkIds,
     email : {NoPrimary}, profile : {NoProfile}, updated_at : {0},
     session : SessionIds]

OtherEvents ==
    [type : {"organization.created"}, id : {"none"}, email : {NoPrimary},
     profile : {NoProfile}, updated_at : {0}, session : {"none"}]

Events == UserEvents \cup DeletedEvents \cup SessionEvents \cup OtherEvents

SvixHeaders == {"svix-id", "svix-timestamp", "svix-signature"}

\* what the endpoint sees of the HTTP request before the event is decoded
GoodHttp ==
    [method |-> "POST", payload |-> TRUE, headers |-> SvixHeaders, sigOk |-> TRUE]

\* requests the endpoint turns away: wrong method, no body, a svix header
\* missing, or a signature that does not verify
BadHttp ==
    { [method |-> "GET", payload |-> TRUE, headers |-> SvixHeaders, sigOk |-> TRUE],
      [method |-> "POST", payload |-> FALSE, headers |-> SvixHeaders, sigOk |-> TRUE],
      [method |-> "POST", payload |-> TRUE, headers |-> SvixHeaders, sigOk |-> FALSE] }
    \cup { [method |-> "POST", payload |-> TRUE, headers |-> h, sigOk |-> TRUE] :
              h \in (SUBSET SvixHeaders) \ {SvixHeaders} }

\* the body of a request that is not from Clerk: a forged user.created
ForgedEvent ==
    [type |-> "user.created", id |-> "idp_1", email |-> "a@x.com",
     profile |-> NoProfile, updated_at |-> 0, session |-> "none"]

\* the requests delivered to the endpoint: <<http, event in the body>>
Deliveries ==
    {<<h, ForgedEvent>> : h \in BadHttp} \cup {<<GoodHttp, e>> : e \in Events}

\* the deliveries raced against each other: verified events that reach the
\* store; creation events with one profile, update events with either
RacingDeliveries ==
    {<<GoodHttp, e>> : e \in {x \in UserEvents \cup DeletedEvents \cup SessionEvents :
        /\ x.type \in {"user.created", "user.updated"} => x.email # NoPrimary
        /\ x.type # "session.removed"
        /\ x.type = "user.created" =>
              x.profile = (CHOOSE q \in Profiles : q.firstName # "")}}

\* the deliveries interleaved with self-service requests: verified events of
\* every kind the reconciliation and session handlers act on
ReconcileDeliveries ==
    {<<GoodHttp, e>> : e \in {x \in UserEvents \cup DeletedEvents \cup SessionEvents :
        /\ x.type \in {"user.created", "user.updated"} =>
              /\ x.email # NoPrimary
              /\ x.profile = (CHOOSE q \in Profiles : q.firstName # "")
        /\ x.type # "session.removed"}}

Snapshot == [users |-> users, log |-> log]

NoPrev ==
    [type |-> "none", id |-> "none", status |-> 0, count |-> 0, known |-> FALSE,
     action |-> "none", logged |-> "none"]

NoSnapshot == [users |-> {}, log |-> <<>>]

\* no change map: the activity is not user.updated
NoChanges == [f \in NameFields |-> FALSE]

Idle ==
    [pc |-> "idle", http |-> GoodHttp, evt |-> NoEvent, status |-> 0,
     err |-> "none", existing |-> NoDoc, doc |-> NoDoc, action |-> "none",
     logged |-> "none", clerk |-> "none", handler |-> "none", at |-> "none",
     changes |-> NoChanges,
     pre |-> NoSnapshot, after |-> NoPrev, replay |-> FALSE]

Running(r) == r.pc \notin {"idle", "done"}

\* what a request records of the request its instance ran before it: the
\* event's type and identity id, the status answered, the number of User
\* documents before it, whether one of them had that identity id, and what
\* it logged
Summary(r) ==
    [type |-> r.evt.type, id |-> r.evt.id, status |-> r.status,
     count |-> Cardinality(r.pre.users),
     known |-> \E d \in r.pre.users : d.clerkId = r.evt.id,
     action |-> r.action, logged |-> r.logged]

\* two deliveries of one event: the same payload
SameEvent(e1, e2) == [e1 EXCEPT !.updated_at = 0] = [e2 EXCEPT !.updated_at = 0]

\* the handler returns a response (its local existingUser goes out of scope);
\* `at` keeps the await at which a failing handler stopped
Respond(r, code, e) ==
    [r EXCEPT !.pc = "done", !.status = code, !.err = e, !.existing = NoDoc,
              !.at = IF code = 500 THEN r.pc ELSE "none"]

\* new Date(): the clock reads the number of requests delivered so far
Now == received

----------------------------------------------------------------------------
(* connectDB: inputs and initial state *)

\* the callers of connectDB: request handlers of one process
Callers == {"k1", "k2", "k3"}

\* number of mongoose.connect calls in one behaviour
MaxConnects == 3

\* cached.conn === null
NoConn == 0

\* cached.promise === null
NoPromise == 0

\* cached = global.myMongoose = { conn: null, promise: null }
CachedInit == [conn |-> NoConn, promise |-> NoPromise]

\* a caller that has not called connectDB
NotCalled == [pc |-> "idle", p |-> NoPromise]

----------------------------------------------------------------------------
(* The self-service endpoints: inputs and initial state *)

\* number of self-service requests in one behaviour
MaxCalls == 2

\* auth() found no signed-in user
NoUser == "none"

\* the keys of userSchema (zod)
BodyFields == {"email", "name", "role", "plan", "status"}

\* DELETE has no body
NoBody == [p \in {} |-> ""]

\* JSON bodies sent to PUT: valid partial updates, values the schema refuses,
\* and bodies with a key the schema does not have
Bodies ==
    { [name |-> "Ann Lee"],
      [plan |-> "premium", role |-> "admin"],
      [email |-> "b@x.com", status |-> "suspended"],
      [name |-> "A"],
      [email |-> "nope"],
      [status |-> "inactive"],
      [name |-> "Ann Lee", isAdmin |-> "true"],
      [clerkId |-> "idp_2"],
      [plan |-> "premium", clerkId |-> "idp_2"] }

\* the bodies sent to PUT between webhook deliveries: a change of status, and
\* a change of plan that also names another identity id
MixedBodies ==
    { [status |-> "banned"],
      [plan |-> "premium", clerkId |-> "idp_2"] }

ApiIdle ==
    [pc |-> "idle", method |-> "none", userId |-> NoUser, body |-> NoBody,
     data |-> NoBody, status |-> 0, pre |-> {}, n |-> 0]

\* nothing has been called yet
NoCall == [op |-> "none"]

----------------------------------------------------------------------------

Init ==
    /\ users = {}
    /\ log = <<>>
    /\ nextId = 1
    /\ received = 0
    /\ reqs = [i \in Instances |-> Idle]
    /\ cached = CachedInit
    /\ promises = <<>>
    /\ callers = [k \in Callers |-> NotCalled]
    /\ jobs = <<>>
    /\ api = ApiIdle
    /\ web = NoCall

----------------------------------------------------------------------------
(* Store operations of the repositories *)

\* Model.findOneAndUpdate(filter, data, {new: true}): the possible outcomes.
\* Update validators are off by default, so enum and format are not checked.
FindOneAndUpdate(us, path, val, data) ==
    LET m == {d \in us : Get(d, path) = val}
    IN  IF m = {}
        THEN {[users |-> us, doc |-> NoDoc, err |-> "none"]}
        ELSE { LET new == ApplyUpdate(d, data)
               IN  IF DuplicateKey(us, new)
                   THEN [users |-> us, doc |-> NoDoc, err |-> "dupkey"]
                   ELSE [users |-> Replace(us, d, new), doc |-> new, err |-> "none"]
               : d \in m }

\* UserRepository.updateByClerkId
updateByClerkId(us, clerkId, data) == FindOneAndUpdate(us, "clerkId", clerkId, data)

\* UserRepository.updateById -> BaseRepository.update -> findByIdAndUpdate
updateById(us, id, data) == FindOneAndUpdate(us, "_id", id, data)

\* UserRepository.findByClerkId
findByClerkId(us, clerkId) == FindOne(us, "clerkId", clerkId)

\* UserRepository.findByEmail
findByEmail(us, email) == FindOne(us, "email", email)

\* schema defaults of a new document
SchemaDefaults == [role |-> "user", plan |-> "free", status |-> "active"]

\* BaseRepository.create: new this.model(data) then document.save().  Of the
\* two timestamps updatedAt is kept; createdAt is written here and by nothing else.
create(us, data, id, now) ==
    LET cd  == StrictCast(data)
        dom == DOMAIN cd \cup DOMAIN SchemaDefaults \cup {"_id", "updatedAt"}
        new == [p \in dom |->
                   IF p = "_id" THEN id
                   ELSE IF p = "updatedAt" THEN now
                   ELSE IF p \in DOMAIN cd THEN cd[p]
                   ELSE SchemaDefaults[p]]
    IN  IF DuplicateKey(us, new)
        THEN [users |-> us, doc |-> NoDoc, err |-> "dupkey"]
        ELSE [users |-> us \cup {new}, doc |-> new, err |-> "none"]

----------------------------------------------------------------------------
(* The endpoint: handler *)

\* svix Webhook.verify: accepts exactly the correctly signed requests
Verify(h) == h.sigOk

\* mutant: the result of the signature verification is not acted on
IngressSkipsVerify(h) ==
    IF h.method # "POST" THEN 405
    ELSE IF ~h.payload THEN 400
    ELSE IF h.headers # SvixHeaders THEN 400
    ELSE 0

\* the checks of `handler` before the event is dispatched: the status it
\* answers at once, or 0 when the request is verified
Ingress(h) ==
    IF h.method # "POST" THEN 405
    ELSE IF ~h.payload THEN 400
    ELSE IF h.headers # SvixHeaders THEN 400
    ELSE IF ~Verify(h) THEN 400
    ELSE 0

\* a request out of `deliveries` is delivered to instance i: the synchronous
\* head of `handler`.  With `history` the request records the store as it was
\* on delivery and what came before (for requests delivered one at a time).
Deliver(i, deliveries, history) ==
    /\ \E d \in deliveries :
          LET h == d[1]
              r0 == IF history
                    THEN [Idle EXCEPT !.http = h, !.pre = Snapshot,
                                      !.after = Summary(reqs[i]),
                                      !.replay = /\ reqs[i].status = 200
                                                 /\ SameEvent(reqs[i].evt, d[2])]
                    ELSE [Idle EXCEPT !.http = h]
              code == Ingress(h)
          IN  reqs' = [reqs EXCEPT ![i] =
                    IF code # 0
                    THEN Respond(r0, code, "rejected")
                    ELSE [r0 EXCEPT !.pc = "connect",
                                    !.evt = [d[2] EXCEPT !.updated_at = received + 1]]]
    /\ received' = received + 1
    /\ UNCHANGED <<users, log, nextId, dbvars, api, web>>

\* the next request is delivered once the instance has answered the last one
Receive(i) ==
    /\ ~Running(reqs[i])
    /\ received < MaxEvents
    /\ Deliver(i, Deliveries, TRUE)

\* an instance that has not run yet takes one request, whatever the other does
ReceiveRacing(i) ==
    /\ reqs[i].pc = "idle"
    /\ Deliver(i, RacingDeliveries, FALSE)

\* mutant: the switch has no default branch of its own: an event type it does
\* not know falls into the first case
RouteUnknownToCreated(type) ==
    CASE type = "user.updated"    -> "handleUserUpdated"
      [] type = "user.deleted"    -> "handleUserDeleted"
      [] type = "session.created" -> "handleSessionCreated"
      [] type = "session.removed" -> "handleSessionRemoved"
      [] OTHER                    -> "handleUserCreated"

\* `switch (eventType)`: the handler an event type is routed to
Route(type) ==
    CASE type = "user.created"    -> "handleUserCreated"
      [] type = "user.updated"    -> "handleUserUpdated"
      [] type = "user.deleted"    -> "handleUserDeleted"
      [] type = "session.created" -> "handleSessionCreated"
      [] type = "session.removed" -> "handleSessionRemoved"
      [] OTHER                    -> "none"

\* the first await of each handler
Entry(h) ==
    CASE h = "handleUserCreated"    -> "c_find"
      [] h = "handleUserUpdated"    -> "u_find"
      [] h = "handleUserDeleted"    -> "d_find"
      [] OTHER                      -> "s_find"

\* mutant: the result of email_addresses.find is not checked
HasPrimaryEmailUnchecked(e) == TRUE

\* primaryEmail = email_addresses.find(e => e.id === primary_email_address_id)
\* found an entry
HasPrimaryEmail(e) == e.email # NoPrimary

\* await connectDB(), then the switch and the handler's code up to its first
\* await (for user.created / user.updated: the primary e-mail is resolved)
ConnectDB(i) ==
    LET r == reqs[i]
        h == Route(r.evt.type)
    IN  /\ r.pc = "connect"
        /\ \E ok \in BOOLEAN :
              reqs' = [reqs EXCEPT ![i] =
                 IF ~ok THEN Respond(r, 500, "db")
                 ELSE IF h = "none" THEN Respond(r, 200, "none")
                 ELSE IF /\ h \in {"handleUserCreated", "handleUserUpdated"}
                         /\ ~HasPrimaryEmail(r.evt)
                      THEN Respond([r EXCEPT !.handler = h], 500, "validation")
                 ELSE [r EXCEPT !.handler = h, !.pc = Entry(h)]]
        /\ UNCHANGED <<users, log, nextId, received, dbvars, api, web>>

\* a read of the store by instance i at await `at`: the query fails, or the
\* request moves on to one of `nexts` (one per document the query may return)
Read(i, at, nexts) ==
    LET r == reqs[i]
    IN  /\ r.pc = at
        /\ \/ reqs' = [reqs EXCEPT ![i] = Respond(r, 500, "db")]
           \/ \E n \in nexts : reqs' = [reqs EXCEPT ![i] = n]
        /\ UNCHANGED <<users, log, nextId, received, dbvars, api, web>>

\* a write of the store by instance i at await `at`: it fails before it is
\* applied, or is refused by a unique index, or is applied; `outcomes` pairs
\* each outcome `o` of the store call with the request `r` that follows it
Write(i, at, outcomes) ==
    LET r == reqs[i]
    IN  /\ r.pc = at
        /\ \/ /\ reqs' = [reqs EXCEPT ![i] = Respond(r, 500, "db")]
              /\ UNCHANGED <<users, nextId>>
           \/ \E x \in outcomes :
                 IF x.o.err # "none"
                 THEN /\ reqs' = [reqs EXCEPT ![i] = Respond(r, 500, x.o.err)]
                      /\ UNCHANGED <<users, nextId>>
                 ELSE /\ users' = x.o.users
                      /\ nextId' = IF Cardinality(x.o.users) > Cardinality(users)
                                   THEN nextId + 1 ELSE nextId
                      /\ reqs' = [reqs EXCEPT ![i] = x.r]
        /\ UNCHANGED <<log, received, dbvars, api, web>>

\* the request goes on to logUserActivity(doc._id, action, ...)
ToLog(r, doc, action) == [r EXCEPT !.pc = "log", !.doc = doc, !.action = action]

----------------------------------------------------------------------------
(* handleUserCreated *)

\* mutant: the branch for a user that is already active does not return
AfterFindCreatedNoReturn(r, d) ==
    IF Found(d) /\ d.status = "inactive"
    THEN [r EXCEPT !.existing = d, !.pc = "c_reactivate"]
    ELSE [r EXCEPT !.pc = "c_findEmail"]

\* mutant: an existing user is left as it is, whatever its status
AfterFindCreatedNoReactivate(r, d) ==
    IF Found(d)
    THEN Respond([r EXCEPT !.existing = d], 200, "none")
    ELSE [r EXCEPT !.pc = "c_findEmail"]

\* after findByClerkId: reactivate, return, or go on to the lookup by e-mail
AfterFindCreated(r, d) ==
    IF Found(d)
    THEN IF d.status = "inactive"
         THEN [r EXCEPT !.existing = d, !.pc = "c_reactivate"]
         ELSE Respond([r EXCEPT !.existing = d], 200, "none")
    ELSE [r EXCEPT !.pc = "c_findEmail"]

\* existingUser = await userRepository.findByClerkId(clerkId)
CreatedFind(i) ==
    LET r == reqs[i]
        Next1(d) == AfterFindCreated(r, d)
    IN  Read(i, "c_find", {Next1(d) : d \in findByClerkId(users, r.evt.id)})

\* reactivation: updateByClerkId(clerkId, {status: "active", updatedAt})
CreatedReactivate(i) ==
    LET r == reqs[i]
        data == [status |-> "active", updatedAt |-> Now]
        Next1(d) == ToLog(r, r.existing, "user.reactivated")
    IN  Write(i, "c_reactivate",
              {[o |-> o, r |-> Next1(o.doc)] :
                  o \in updateByClerkId(users, r.evt.id, data)})

\* existingByEmail = await userRepository.findByEmail(primaryEmail.email_address)
CreatedFindEmail(i) ==
    LET r == reqs[i]
        Next1(d) == IF Found(d)
                    THEN [r EXCEPT !.existing = d, !.pc = "c_relink"]
                    ELSE [r EXCEPT !.pc = "c_create"]
    IN  Read(i, "c_findEmail", {Next1(d) : d \in findByEmail(users, r.evt.email)})

\* mutant: the re-link does not reactivate
RelinkDataKeepsStatus(clerkId, now) == [clerkId |-> clerkId, updatedAt |-> now]

\* the update of the re-link branch
RelinkData(clerkId, now) == [clerkId |-> clerkId, status |-> "active", updatedAt |-> now]

\* re-link: updateById(existingByEmail._id, {clerkId, status: "active", updatedAt})
CreatedRelink(i) ==
    LET r == reqs[i]
        Next1(d) == ToLog(r, r.existing, "user.relinked")
    IN  Write(i, "c_relink",
              {[o |-> o, r |-> Next1(o.doc)] :
                  o \in updateById(users, r.existing._id, RelinkData(r.evt.id, Now))})

\* the document handleUserCreated asks the repository to create
NewUserData(e) ==
    [clerkId |-> e.id, email |-> e.email,
     firstName |-> Or(e.profile.firstName, ""),
     lastName |-> Or(e.profile.lastName, ""),
     username |-> Or(e.profile.username, Undefined),
     avatar |-> Or(e.profile.avatar, Undefined),
     plan |-> "free", role |-> "user", status |-> "active",
     preferences |-> "defaults", stats |-> "zero"]

\* newUser = await userRepository.create({...})
CreatedCreate(i) ==
    LET r == reqs[i]
        Next1(d) == [r EXCEPT !.doc = d, !.pc = "c_clerk"]
    IN  Write(i, "c_create",
              {[o |-> o, r |-> Next1(o.doc)] :
                  o \in {create(users, NewUserData(r.evt), nextId, Now)}})

\* mutant: a failure of getUser or updateUser is not caught
AfterClerkSyncThrows(r, out) ==
    IF out = "synced"
    THEN [ToLog(r, r.doc, "user.created") EXCEPT !.clerk = "synced"]
    ELSE Respond([r EXCEPT !.clerk = "failed"], 500, "clerk")

\* after the sync with Clerk, whatever its outcome: the catch blocks log the
\* failure and the handler goes on to logUserActivity(newUser._id, "user.created")
AfterClerkSync(r, out) ==
    [ToLog(r, r.doc, "user.created") EXCEPT
        !.clerk = IF out = "synced" THEN "synced" ELSE "failed"]

\* the private-metadata sync with Clerk: getUser, isEqual, updateUser; every
\* failure is caught
CreatedClerkSync(i) ==
    LET r == reqs[i]
    IN  /\ r.pc = "c_clerk"
        /\ \E out \in {"synced", "getUserFailed", "updateUserFailed"} :
              reqs' = [reqs EXCEPT ![i] = AfterClerkSync(r, out)]
        /\ UNCHANGED <<users, log, nextId, received, dbvars, api, web>>

----------------------------------------------------------------------------
(* handleUserUpdated *)

\* mutant: an update for an unknown identity id is a no-op
AfterFindUpdatedDropsUnknown(r, d) ==
    IF Found(d)
    THEN [r EXCEPT !.existing = d, !.pc = "u_update"]
    ELSE Respond(r, 200, "none")

\* after findByClerkId: update the user found, or hand an unknown id to
\* handleUserCreated (which starts with its own findByClerkId)
AfterFindUpdated(r, d) ==
    IF Found(d)
    THEN [r EXCEPT !.existing = d, !.pc = "u_update"]
    ELSE [r EXCEPT !.pc = "c_find"]

\* existingUser = await userRepository.findByClerkId(clerkId)
UpdatedFind(i) ==
    LET r == reqs[i]
        Next1(d) == AfterFindUpdated(r, d)
    IN  Read(i, "u_find", {Next1(d) : d \in findByClerkId(users, r.evt.id)})

\* the update handleUserUpdated sends, from the event and the document it read
UpdateData(e, existingUser) ==
    [email |-> e.email,
     firstName |-> Or(e.profile.firstName, Get(existingUser, "firstName")),
     lastName |-> Or(e.profile.lastName, Get(existingUser, "lastName")),
     username |-> Or(e.profile.username, Get(existingUser, "username")),
     avatar |-> Or(e.profile.avatar, Get(existingUser, "avatar")),
     updatedAt |-> e.updated_at]

\* the `changes` of the user.updated metadata: per field, whether the event's
\* value !== the value of the document read (a path the document does not
\* have reads undefined)
ChangeMap(e, existingUser) ==
    [f \in NameFields |-> e.profile[f] # Get(existingUser, f)]

\* updatedUser = await userRepository.updateByClerkId(clerkId, {...}); the
\* activity is logged only if a document was updated
UpdatedUpdate(i) ==
    LET r == reqs[i]
        Next1(d) == IF Found(d)
                    THEN [ToLog(r, d, "user.updated") EXCEPT
                             !.changes = ChangeMap(r.evt, r.existing)]
                    ELSE Respond(r, 200, "none")
    IN  Write(i, "u_update",
              {[o |-> o, r |-> Next1(o.doc)] :
                  o \in updateByClerkId(users, r.evt.id, UpdateData(r.evt, r.existing))})

----------------------------------------------------------------------------
(* handleUserDeleted *)

DeletedFind(i) ==
    LET r == reqs[i]
        Next1(d) == IF Found(d)
                    THEN [r EXCEPT !.existing = d, !.pc = "d_update"]
                    ELSE Respond(r, 200, "none")
    IN  Read(i, "d_find", {Next1(d) : d \in findByClerkId(users, r.evt.id)})

\* mutant: the soft delete writes a status the creation branch does not know
SoftDeleteOtherStatus(now) == [status |-> "deleted", updatedAt |-> now]

\* the update handleUserDeleted sends
SoftDelete(now) == [status |-> "inactive", updatedAt |-> now]

\* mutant: a user that is already inactive is removed (deleteByClerkId)
purgeInactiveUser(us, clerkId, now) ==
    LET m == {d \in us : d.clerkId = clerkId}
    IN  IF m = {}
        THEN {[users |-> us, doc |-> NoDoc, err |-> "none"]}
        ELSE {IF d.status = "inactive"
              THEN [users |-> us \ {d}, doc |-> d, err |-> "none"]
              ELSE [users |-> Replace(us, d, ApplyUpdate(d, SoftDelete(now))),
                    doc |-> ApplyUpdate(d, SoftDelete(now)), err |-> "none"]
              : d \in m}

\* the store call of handleUserDeleted: a soft delete, by update
deleteUser(us, clerkId, now) == updateByClerkId(us, clerkId, SoftDelete(now))

\* deletedUser = await userRepository.updateByClerkId(clerkId, {status: "inactive", ...})
DeletedUpdate(i) ==
    LET r == reqs[i]
        Next1(d) == IF Found(d) THEN ToLog(r, d, "user.deleted")
                    ELSE Respond(r, 200, "none")
    IN  Write(i, "d_update",
              {[o |-> o, r |-> Next1(o.doc)] : o \in deleteUser(users, r.evt.id, Now)})

----------------------------------------------------------------------------
(* handleSessionCreated / handleSessionRemoved *)

SessionFind(i) ==
    LET r == reqs[i]
        Next1(d) == IF Found(d) THEN ToLog(r, d, r.evt.type)
                    ELSE Respond(r, 200, "none")
    IN  Read(i, "s_find", {Next1(d) : d \in findByClerkId(users, r.evt.id)})

----------------------------------------------------------------------------
(* logUserActivity *)

\* mutant: the session id is left out of the entry
LogEntryNoSession(r) == [userId |-> r.doc._id, action |-> r.action, session |-> "none"]

\* the entry logUserActivity writes: user, action, and the session id that the
\* session handlers put in its metadata
LogEntry(r) == [userId |-> r.doc._id, action |-> r.action, session |-> r.evt.session]

\* activityLogRepository.create: the entry is appended, or the write fails
ActivityLogCreate(l, entry) ==
    {[log |-> Append(l, entry), ok |-> TRUE], [log |-> l, ok |-> FALSE]}

\* mutant: logUserActivity rethrows
LogFailureRethrown(r) == Respond([r EXCEPT !.logged = "failed"], 500, "log")

\* what a failed log write does to the request: the error is caught and logged,
\* and the handler returns normally
LogFailure(r) == Respond([r EXCEPT !.logged = "failed"], 200, "none")

\* await logUserActivity(...), the last await of every branch that logs
LogUserActivity(i) ==
    LET r == reqs[i]
    IN  /\ r.pc = "log"
        /\ \E o \in ActivityLogCreate(log, LogEntry(r)) :
              /\ log' = o.log
              /\ reqs' = [reqs EXCEPT ![i] =
                    IF o.ok THEN Respond([r EXCEPT !.logged = "ok"], 200, "none")
                    ELSE LogFailure(r)]
        /\ UNCHANGED <<users, nextId, received, dbvars, api, web>>

----------------------------------------------------------------------------
(* connectDB (lib/database) *)

\* mutant: every call that finds no connection starts a connection of its own
NeedsConnectAlways(c) == TRUE

\* if (!cached.promise)
NeedsConnect(c) == c.promise = NoPromise

\* the promises whose mongoose.connect has not settled: attempts in flight
InFlight == {p \in 1..Len(promises) : promises[p].state = "pending"}

\* a caller calls connectDB(): the function runs up to its await.  A call is
\* made by the task of a request, and tasks start with the microtask queue
\* drained.
ConnectDBCall(k) ==
    /\ jobs = <<>>
    /\ callers[k].pc \in {"idle", "returned", "thrown"}
    /\ IF cached.conn # NoConn
       THEN /\ callers' = [callers EXCEPT ![k] = [pc |-> "returned", p |-> NoPromise]]
            /\ UNCHANGED <<cached, promises, jobs>>
       ELSE LET start == NeedsConnect(cached)
                p  == IF start THEN Len(promises) + 1 ELSE cached.promise
                ps == IF start
                      THEN Append(promises, [state |-> "pending", waiters |-> <<>>])
                      ELSE promises
            IN  /\ start => Len(promises) < MaxConnects
                /\ cached' = [cached EXCEPT !.promise = p]
                /\ callers' = [callers EXCEPT ![k] = [pc |-> "awaiting", p |-> p]]
                /\ IF ps[p].state = "pending"
                   THEN /\ promises' = [ps EXCEPT ![p].waiters = Append(@, k)]
                        /\ jobs' = jobs
                   ELSE /\ promises' = ps
                        /\ jobs' = Append(jobs, k)
    /\ UNCHANGED <<users, received, hookvars, api, web>>

\* mongoose.connect(...).then(...) settles: the continuations of the callers
\* awaiting it are queued, in the order in which they awaited
Settle(p) ==
    /\ jobs = <<>>
    /\ p \in InFlight
    /\ \E outcome \in {"fulfilled", "rejected"} :
          promises' = [promises EXCEPT ![p] = [state |-> outcome, waiters |-> <<>>]]
    /\ jobs' = promises[p].waiters
    /\ UNCHANGED <<cached, callers, users, received, hookvars, api, web>>

\* mutant: the catch rethrows without resetting the promise
OnRejectedKeepsPromise(c) == c

\* catch (e) { cached.promise = null; throw e }
OnRejected(c) == [c EXCEPT !.promise = NoPromise]

\* the continuation at the head of the queue runs: `cached.conn = await
\* cached.promise`, or the catch that resets cached.promise and rethrows
Resume ==
    /\ jobs # <<>>
    /\ LET k == Head(jobs)
           p == callers[k].p
       IN  IF promises[p].state = "fulfilled"
           THEN /\ cached' = [cached EXCEPT !.conn = p]
                /\ callers' = [callers EXCEPT ![k] = [pc |-> "returned", p |-> NoPromise]]
           ELSE /\ cached' = OnRejected(cached)
                /\ callers' = [callers EXCEPT ![k] = [pc |-> "thrown", p |-> NoPromise]]
    /\ jobs' = Tail(jobs)
    /\ UNCHANGED <<promises, users, received, hookvars, api, web>>

----------------------------------------------------------------------------
(* The user self-service endpoints: PUT and DELETE of app/api/user/[id] *)

\* z.string().email(): the well-formed addresses
IsEmail(v) == v \in Emails

\* what userSchema accepts for a key
ValidField(f, v) ==
    CASE f = "email"  -> IsEmail(v)
      [] f = "name"   -> Len(v) >= 2 /\ Len(v) <= 50
      [] f = "role"   -> v \in {"admin", "user"}
      [] f = "plan"   -> v \in {"free", "premium"}
      [] f = "status" -> v \in {"active", "banned", "suspended"}
      [] OTHER        -> FALSE

\* mutant: the schema lets the keys it does not know through (passthrough)
safeParsePassthrough(body) ==
    LET known == DOMAIN body \cap BodyFields
    IN  [success |-> \A f \in known : ValidField(f, body[f]),
         data |-> body]

\* userSchema.safeParse(body): z.object strips the keys it does not know and
\* validates the optional keys that are present
safeParse(body) ==
    LET known == DOMAIN body \cap BodyFields
    IN  [success |-> \A f \in known : ValidField(f, body[f]),
         data |-> [f \in known |-> body[f]]]

\* { timestamps: true }: an update that does not set updatedAt sets it to now
Timestamps(data, now) ==
    [p \in DOMAIN data \cup {"updatedAt"} |->
        IF p \in DOMAIN data THEN data[p] ELSE now]

\* mutant: the filter of the delete is empty
deleteAnyUser(us, clerkId) ==
    IF us = {} THEN {[users |-> us, doc |-> NoDoc, err |-> "none"]}
    ELSE {[users |-> us \ {d}, doc |-> d, err |-> "none"] : d \in us}

\* UserRepository.deleteByClerkId: User.findOneAndDelete({ clerkId })
deleteByClerkId(us, clerkId) ==
    LET m == {d \in us : d.clerkId = clerkId}
    IN  IF m = {} THEN {[users |-> us, doc |-> NoDoc, err |-> "none"]}
        ELSE {[users |-> us \ {d}, doc |-> d, err |-> "none"] : d \in m}

\* the endpoint returns a response
ApiRespond(a, code) == [a EXCEPT !.pc = "done", !.status = code]

\* a PUT with one of `bodies`, or a DELETE, arrives from a signed-in user or
\* from nobody
ApiArrive(bodies) ==
    /\ api.pc \in {"idle", "done"}
    /\ \E m \in {"PUT", "DELETE"}, u \in ClerkIds \cup {NoUser},
          b \in bodies \cup {NoBody} :
          /\ (m = "DELETE") = (b = NoBody)
          /\ api' = [ApiIdle EXCEPT !.pc = "auth", !.method = m, !.userId = u,
                                    !.body = b, !.pre = users, !.n = api.n + 1]
    /\ received' = received + 1
    /\ UNCHANGED <<users, hookvars, dbvars, web>>

\* the self-service requests of SpecApi
ApiReceive ==
    /\ api.n < MaxCalls
    /\ ApiArrive(Bodies)

\* const { userId } = await auth(); then, for PUT, the body is read and
\* validated
ApiAuth ==
    /\ api.pc = "auth"
    /\ api' = IF api.userId = NoUser THEN ApiRespond(api, 401)
              ELSE IF api.method = "DELETE" THEN [api EXCEPT !.pc = "delete"]
              ELSE LET validatedFields == safeParse(api.body)
                   IN  IF ~validatedFields.success THEN ApiRespond(api, 400)
                       ELSE [api EXCEPT !.pc = "update",
                                        !.data = validatedFields.data]
    /\ UNCHANGED <<users, received, hookvars, dbvars, web>>

\* PUT: updatedUser = await userRepository.updateByClerkId(userId, data)
ApiUpdate ==
    /\ api.pc = "update"
    /\ \/ /\ api' = ApiRespond(api, 500)
          /\ UNCHANGED users
       \/ \E o \in updateByClerkId(users, api.userId, Timestamps(api.data, Now)) :
             IF o.err # "none"
             THEN api' = ApiRespond(api, 500) /\ UNCHANGED users
             ELSE /\ users' = o.users
                  /\ api' = ApiRespond(api, IF Found(o.doc) THEN 200 ELSE 404)
    /\ UNCHANGED <<received, hookvars, dbvars, web>>

\* DELETE: deletedUser = await userRepository.deleteByClerkId(userId); the
\* answer is 204 whether a document was found or not
ApiDelete ==
    /\ api.pc = "delete"
    /\ \/ /\ api' = ApiRespond(api, 500)
          /\ UNCHANGED users
       \/ \E o \in deleteByClerkId(users, api.userId) :
             /\ users' = o.users
             /\ api' = ApiRespond(api, 204)
    /\ UNCHANGED <<received, hookvars, dbvars, web>>

----------------------------------------------------------------------------
(* handleUserCreated as a whole *)

\* logUserActivity(id, action) after the store holds `us`: the entry is
\* written or the write fails, and the handler returns either way
Logged(us, l, id, action) ==
    {[users |-> us, log |-> o.log] :
        o \in ActivityLogCreate(l, [userId |-> id, action |-> action,
                                    session |-> "none"])}

\* a run of handleUserCreated that returns normally, with nothing else running:
\* the User collections and activity logs it may leave, from the collection
\* `us` and the log `l`, when the store hands out `id` and the clock reads `now`
handleUserCreated(us, l, e, id, now) ==
    UNION {
      IF Found(d)
      THEN IF d.status = "inactive"
           THEN UNION {Logged(o.users, l, d._id, "user.reactivated") :
                   o \in {x \in updateByClerkId(us, e.id,
                                    [status |-> "active", updatedAt |-> now]) :
                             x.err = "none"}}
           ELSE {[users |-> us, log |-> l]}
      ELSE UNION {
             IF Found(m)
             THEN UNION {Logged(o.users, l, m._id, "user.relinked") :
                     o \in {x \in updateById(us, m._id, RelinkData(e.id, now)) :
                               x.err = "none"}}
             ELSE UNION {Logged(o.users, l, o.doc._id, "user.created") :
                     o \in {x \in {create(us, NewUserData(e), id, now)} :
                               x.err = "none"}}
             : m \in findByEmail(us, e.email)}
      : d \in findByClerkId(us, e.id)}

----------------------------------------------------------------------------
(* Specifications *)

Step(i) ==
    \/ ConnectDB(i)
    \/ CreatedFind(i)
    \/ CreatedReactivate(i)
    \/ CreatedFindEmail(i)
    \/ CreatedRelink(i)
    \/ CreatedCreate(i)
    \/ CreatedClerkSync(i)
    \/ UpdatedFind(i)
    \/ UpdatedUpdate(i)
    \/ DeletedFind(i)
    \/ DeletedUpdate(i)
    \/ SessionFind(i)
    \/ LogUserActivity(i)

\* requests are delivered one after the other, to one instance
Next == Receive("i1") \/ Step("i1")

Spec == Init /\ [][Next]_vars

\* stores that sequences of requests leave behind (see AtSeed): the
\* empty store; one active user; that user soft-deleted; two active users
SeedDoc(id, clerkId, email, status, at) ==
    [_id |-> id, clerkId |-> clerkId, email |-> email, role |-> "user",
     plan |-> "free", status |-> status, updatedAt |-> at]

SeedLog(id, action) == [userId |-> id, action |-> action, session |-> "none"]

Seeds ==
    { [users |-> {}, log |-> <<>>, nextId |-> 1, received |-> 0],
      [users |-> {SeedDoc(1, "idp_1", "a@x.com", "active", 1)},
       log |-> <<SeedLog(1, "user.created")>>, nextId |-> 2, received |-> 1],
      [users |-> {SeedDoc(1, "idp_1", "a@x.com", "inactive", 2)},
       log |-> <<SeedLog(1, "user.created"), SeedLog(1, "user.deleted")>>,
       nextId |-> 2, received |-> 2],
      [users |-> {SeedDoc(1, "idp_1", "a@x.com", "active", 1),
                  SeedDoc(2, "idp_2", "b@x.com", "active", 2)},
       log |-> <<SeedLog(1, "user.created"), SeedLog(2, "user.created")>>,
       nextId |-> 3, received |-> 2] }

\* the store is the seed s (each seed is a state Spec reaches)
AtSeed(s) ==
    users = s.users /\ log = s.log /\ nextId = s.nextId /\ received = s.received

InitConc ==
    /\ \E s \in Seeds : AtSeed(s)
    /\ reqs = [i \in Instances |-> Idle]
    /\ cached = CachedInit
    /\ promises = <<>>
    /\ callers = [k \in Callers |-> NotCalled]
    /\ jobs = <<>>
    /\ api = ApiIdle
    /\ web = NoCall

\* two requests, one per instance, run against each other from a seed store
NextConc == \E i \in Instances : ReceiveRacing(i) \/ Step(i)

SpecConc == InitConc /\ [][NextConc]_vars

\* the callers of one process call connectDB, in any order and any number of times
NextDB == (\E k \in Callers : ConnectDBCall(k)) \/ (\E p \in InFlight : Settle(p)) \/ Resume

SpecDB == Init /\ [][NextDB]_vars

\* self-service requests, one after the other, on a store the webhook left
NextApi == ApiReceive \/ ApiAuth \/ ApiUpdate \/ ApiDelete

SpecApi == InitConc /\ [][NextApi]_vars

\* webhook deliveries and self-service requests, one request at a time
ReceiveMixed(i) ==
    /\ ~Running(reqs[i])
    /\ api.pc \in {"idle", "done"}
    /\ received < MaxEvents
    /\ Deliver(i, ReconcileDeliveries, TRUE)

ApiReceiveMixed ==
    /\ ~Running(reqs["i1"])
    /\ received < MaxEvents
    /\ ApiArrive(MixedBodies)

NextMixed ==
    \/ ReceiveMixed("i1")
    \/ Step("i1")
    \/ ApiReceiveMixed
    \/ ApiAuth
    \/ ApiUpdate
    \/ ApiDelete

SpecMixed == Init /\ [][NextMixed]_vars

----------------------------------------------------------------------------
(* The request guards: CSRF tokens *)

\* CSRF_CONFIG.maxAge, in milliseconds
MaxAge == 3600000

\* CSRF_CONFIG.tokenLength, in bytes (two hex characters each)
TokenLength == 32

\* what Number.parseInt returns for a string that does not start with a digit
NaN == -1

\* readings of Date.now()
Times == {0, 1, MaxAge, MaxAge + 1, 2 * MaxAge + 1}

RECURSIVE DecimalLength(_)
DecimalLength(n) == IF n < 10 THEN 1 ELSE 1 + DecimalLength(n \div 10)

\* A token string is the sequence of its "."-separated pieces; of a piece the
\* code uses what parseInt reads (`int`), and its length; `numeric` says that
\* it is all digits, `text` tells pieces of one shape apart.
Digits(n) == [int |-> n, numeric |-> TRUE, len |-> DecimalLength(n), text |-> "digits"]

Letters == [int |-> NaN, numeric |-> FALSE, len |-> 3, text |-> "abc"]

DigitsThenLetters == [int |-> 1, numeric |-> FALSE, len |-> 4, text |-> "1abc"]

Empty == [int |-> NaN, numeric |-> FALSE, len |-> 0, text |-> ""]

\* hex strings of a given length
Hex(len, text) == [int |-> NaN, numeric |-> FALSE, len |-> len, text |-> text]

\* generateCSRFToken(): tokenLength random bytes as hex
generateCSRFToken(random) == Hex(TokenLength * 2, random)

\* the values crypto.getRandomValues yields
Randoms == {"r1", "r2"}

\* createTimestampedToken(): `${Date.now()}.${generateCSRFToken()}`
createTimestampedToken(now, random) == <<Digits(now), generateCSRFToken(random)>>

\* no token: the cookie, header or form field is absent (or empty)
NoToken == <<>>

\* token strings a client may send
Tokens ==
    {<<t, p>> : t \in {Digits(n) : n \in Times} \cup {Letters, DigitsThenLetters, Empty},
                p \in {Hex(TokenLength * 2, "r1"), Hex(TokenLength * 2 - 1, "r1"),
                        Hex(TokenLength * 2 + 1, "r1"), Empty}}
    \cup {<<Hex(TokenLength * 2, "r1")>>, <<Empty>>,
          <<Digits(1), Hex(TokenLength * 2, "r1"), Letters>>}

\* validateTimestampedToken(token) when Date.now() is `now`:
\* [timestampStr, tokenPart] = token.split("."); a comparison with NaN is false
validateTimestampedToken(token, now) ==
    IF Len(token) < 2 \/ token[1].len = 0 \/ token[2].len = 0 THEN FALSE
    ELSE LET timestamp == token[1].int
         IN  IF timestamp # NaN /\ now - timestamp > MaxAge THEN FALSE
             ELSE IF token[2].len # TokenLength * 2 THEN FALSE
             ELSE TRUE

\* validateTimestampedToken is called on a token a client sent
CallValidate ==
    /\ web = NoCall
    /\ \E token \in Tokens, now \in Times :
          web' = [op |-> "validateTimestampedToken", token |-> token,
                  made |-> NaN, now |-> now,
                  out |-> validateTimestampedToken(token, now)]
    /\ UNCHANGED <<users, received, hookvars, dbvars, api>>

\* a token made by createTimestampedToken at `made` is validated at `now`
CallCreateThenValidate ==
    /\ web = NoCall
    /\ \E made \in Times, now \in Times, random \in Randoms :
          /\ made <= now
          /\ web' = [op |-> "validateTimestampedToken",
                     token |-> createTimestampedToken(made, random),
                     made |-> made, now |-> now,
                     out |-> validateTimestampedToken(
                                 createTimestampedToken(made, random), now)]
    /\ UNCHANGED <<users, received, hookvars, dbvars, api>>

----------------------------------------------------------------------------
(* The request guards: requests and responses *)

\* A pathname is the sequence of its "/" and its segments: "/api/csrf" is
\* <<"/", "api", "/", "csrf">>.  A URL's pathname always starts with "/".
Pathnames ==
    { <<"/">>,
      <<"/", "dashboard">>,
      <<"/", "api", "/", "csrf">>,
      <<"/", "api", "/", "user", "/", "idp_1">>,
      <<"/", "api", "/", "admin", "/", "users">>,
      <<"/", "api", "/", "webhooks", "/", "clerk">> }

\* pathname.startsWith(prefix)
StartsWith(pathname, prefix) ==
    /\ Len(prefix) <= Len(pathname)
    /\ SubSeq(pathname, 1, Len(prefix)) = prefix

\* pathname.includes(part)
Includes(pathname, part) ==
    \E k \in 1..Len(pathname) :
        /\ k + Len(part) - 1 <= Len(pathname)
        /\ SubSeq(pathname, k, k + Len(part) - 1) = part

Methods == {"GET", "HEAD", "OPTIONS", "POST", "PUT", "DELETE", "PATCH"}

\* An origin is the sequence of the pieces of its string that the code can
\* tell apart; no Origin header is the empty sequence.
NoOrigin == <<>>

\* the development list of getCORSConfig
DevOrigins ==
    { <<"http://", "localhost", ":3000">>, <<"http://", "localhost", ":3001">>,
      <<"http://", "127.0.0.1", ":3000">>, <<"http://", "127.0.0.1", ":3001">>,
      <<"https://", "localhost", ":3000">>, <<"https://", "localhost", ":3001">> }

\* values of the Origin header
Origins ==
    { NoOrigin,
      <<"http://", "localhost", ":3000">>,
      <<"http://", "127.0.0.1", ":3001">>,
      <<"https://", "app.example.com">>,
      <<"https://", "evil.example">>,
      <<"http://", "localhost", ":8080">>,
      <<"https://", "localhost", ".evil.example">> }

\* process.env.NODE_ENV
Envs == {"production", "development", "test"}

\* process.env.ALLOWED_ORIGINS, split and trimmed (unset: the empty list)
AllowedOriginsEnvs == { {}, {<<"https://", "app.example.com">>} }

\* a header that was never set
NotSet == "not set"

\* a response: its status and the CORS headers the claims are about
Response(status) ==
    [status |-> status, allowOrigin |-> NotSet, allowCredentials |-> NotSet]

\* what the route (or NextResponse.next()) returns when it is reached
RouteResponses == {Response(200), Response(404)}

\* a request a guard sees
WebRequest(method, pathname, origin, acrm, cookie, header, form) ==
    [method |-> method, pathname |-> pathname, origin |-> origin,
     acrm |-> acrm, cookie |-> cookie, header |-> header, form |-> form]

----------------------------------------------------------------------------
(* withCSRFProtection *)

\* mutant: the cookie token is not compared with the request token
validateCSRFTokenNoMatch(request, now) ==
    LET cookieToken == request.cookie
        requestToken == IF request.header # NoToken THEN request.header
                        ELSE IF request.method = "POST" THEN request.form
                        ELSE NoToken
    IN  IF cookieToken = NoToken THEN FALSE
        ELSE IF requestToken = NoToken THEN FALSE
        ELSE validateTimestampedToken(cookieToken, now)

\* validateCSRFToken(request): cookie token, then the header token or, for a
\* POST without one, the form field; both present, equal, and well-formed
validateCSRFToken(request, now) ==
    LET cookieToken == request.cookie
        requestToken == IF request.header # NoToken THEN request.header
                        ELSE IF request.method = "POST" THEN request.form
                        ELSE NoToken
    IN  IF cookieToken = NoToken THEN FALSE
        ELSE IF requestToken = NoToken THEN FALSE
        ELSE IF cookieToken # requestToken THEN FALSE
        ELSE validateTimestampedToken(cookieToken, now)

\* withCSRFProtection(request, handler), `handler` returning `response`:
\* whether the handler was called, and the response returned
withCSRFProtection(request, now, response) ==
    IF request.method \in {"GET", "HEAD", "OPTIONS"}
    THEN [called |-> TRUE, response |-> response]
    ELSE IF \/ Includes(request.pathname, <<"/", "webhooks", "/">>)
            \/ Includes(request.pathname, <<"/", "api", "/", "webhooks", "/">>)
    THEN [called |-> TRUE, response |-> response]
    ELSE IF ~validateCSRFToken(request, now)
    THEN [called |-> FALSE, response |-> Response(403)]
    ELSE [called |-> TRUE, response |-> response]

\* the tokens of the requests sent through withCSRFProtection
CsrfTokens ==
    { NoToken,
      createTimestampedToken(1, "r1"),
      createTimestampedToken(1, "r2"),
      <<Letters, Hex(TokenLength * 2, "r1")>>,
      <<Digits(1), Hex(TokenLength * 2 - 1, "r1")>> }

CallCSRF ==
    /\ web = NoCall
    /\ \E method \in Methods, pathname \in Pathnames, now \in {1, MaxAge + 1, MaxAge + 2},
          cookie \in CsrfTokens, header \in CsrfTokens, form \in CsrfTokens,
          response \in RouteResponses :
          LET request == WebRequest(method, pathname, NoOrigin, "", cookie, header, form)
          IN  web' = [op |-> "withCSRFProtection", request |-> request, now |-> now,
                      handler |-> response,
                      out |-> withCSRFProtection(request, now, response)]
    /\ UNCHANGED <<users, received, hookvars, dbvars, api>>

----------------------------------------------------------------------------
(* withCORSProtection *)

\* DEFAULT_CORS_CONFIG.allowedMethods
AllowedMethods == {"GET", "POST", "PUT", "DELETE", "PATCH", "OPTIONS"}

\* getCORSConfig(): the allowed origins come from ALLOWED_ORIGINS in
\* production and are the development list otherwise
getCORSConfig(env, allowedOriginsEnv) ==
    [allowedOrigins |-> IF env = "production" THEN allowedOriginsEnv ELSE DevOrigins,
     allowedMethods |-> AllowedMethods,
     allowCredentials |-> TRUE]

\* origin.includes(word)
Mentions(origin, word) == \E k \in 1..Len(origin) : origin[k] = word

\* mutant: localhost origins are let through whatever NODE_ENV is
isOriginAllowedAnyEnv(origin, allowedOrigins, env) ==
    IF origin = NoOrigin THEN TRUE
    ELSE IF origin \in allowedOrigins THEN TRUE
    ELSE Mentions(origin, "localhost") \/ Mentions(origin, "127.0.0.1")

\* isOriginAllowed(origin, allowedOrigins)
isOriginAllowed(origin, allowedOrigins, env) ==
    IF origin = NoOrigin THEN TRUE
    ELSE IF origin \in allowedOrigins THEN TRUE
    ELSE IF env = "development"
    THEN Mentions(origin, "localhost") \/ Mentions(origin, "127.0.0.1")
    ELSE FALSE

\* setCORSHeaders(response, origin, config)
setCORSHeaders(response, origin, config, env) ==
    IF /\ config.allowCredentials
       /\ origin # NoOrigin
       /\ isOriginAllowed(origin, config.allowedOrigins, env)
    THEN [response EXCEPT !.allowOrigin = origin, !.allowCredentials = "true"]
    ELSE IF ~config.allowCredentials
    THEN [response EXCEPT !.allowOrigin = "*"]
    ELSE response

\* handlePreflightRequest(request, config)
handlePreflightRequest(request, config, env) ==
    IF ~isOriginAllowed(request.origin, config.allowedOrigins, env)
    THEN Response(403)
    ELSE IF request.acrm # "" /\ request.acrm \notin config.allowedMethods
    THEN Response(405)
    ELSE setCORSHeaders(Response(200), request.origin, config, env)

\* withCORSProtection(request, handler), `handler` returning `response`:
\* whether the handler was called, and the response returned
withCORSProtection(request, env, allowedOriginsEnv, response) ==
    LET config == getCORSConfig(env, allowedOriginsEnv)
        origin == request.origin
    IN  IF request.method = "OPTIONS"
        THEN [called |-> FALSE,
              response |-> handlePreflightRequest(request, config, env)]
        ELSE IF origin # NoOrigin /\ ~isOriginAllowed(origin, config.allowedOrigins, env)
        THEN [called |-> FALSE, response |-> Response(403)]
        ELSE [called |-> TRUE,
              response |-> setCORSHeaders(response, origin, config, env)]

CallCORS ==
    /\ web = NoCall
    /\ \E method \in Methods, origin \in Origins, acrm \in {"", "PUT", "TRACE"},
          env \in Envs, allowedOriginsEnv \in AllowedOriginsEnvs,
          response \in RouteResponses :
          LET request == WebRequest(method, <<"/", "api", "/", "user", "/", "idp_1">>,
                                    origin, acrm, NoToken, NoToken, NoToken)
          IN  web' = [op |-> "withCORSProtection", request |-> request, env |-> env,
                      allowedOriginsEnv |-> allowedOriginsEnv, handler |-> response,
                      out |-> withCORSProtection(request, env, allowedOriginsEnv,
                                                 response)]
    /\ UNCHANGED <<users, received, hookvars, dbvars, api>>

----------------------------------------------------------------------------
(* The middleware *)

\* the callback given to clerkMiddleware: the guards it ran, whether the
\* request goes on to the route, and the response
middleware(request, userId, role, env, allowedOriginsEnv, now) ==
    LET pathname == request.pathname
        response == Response(200)
        next == [guards |-> <<>>, reached |-> TRUE, response |-> response]
        csrf == withCSRFProtection(request, now, response)
        cors == withCORSProtection(request, env, allowedOriginsEnv, csrf.response)
    IN  IF pathname = <<"/", "api", "/", "csrf">> \/ StartsWith(pathname, <<"/">>)
        THEN next
        ELSE IF StartsWith(pathname, <<"/", "api", "/">>)
        THEN [guards |-> IF cors.called THEN <<"cors", "csrf">> ELSE <<"cors">>,
              reached |-> cors.called /\ csrf.called,
              response |-> cors.response]
        ELSE IF \/ ~StartsWith(pathname, <<"/", "api", "/", "install">>)
                \/ ~StartsWith(pathname, <<"/", "api", "/", "public">>)
                \/ ~StartsWith(pathname, <<"/", "api", "/", "webhooks">>)
                \/ ~StartsWith(pathname, <<"/">>)
                \/ ~StartsWith(pathname, <<"/", "api-docs">>)
        THEN IF userId = NoUser
             THEN [guards |-> <<>>, reached |-> FALSE, response |-> Response(401)]
             ELSE next
        ELSE IF userId # NoUser /\ StartsWith(pathname, <<"/", "api", "/", "admin">>)
        THEN IF role # "admin"
             THEN [guards |-> <<>>, reached |-> FALSE, response |-> Response(403)]
             ELSE next
        ELSE next

CallMiddleware ==
    /\ web = NoCall
    /\ \E method \in {"GET", "OPTIONS", "POST", "DELETE"}, pathname \in Pathnames,
          origin \in {NoOrigin, <<"https://", "app.example.com">>,
                       <<"https://", "evil.example">>},
          token \in {NoToken, createTimestampedToken(1, "r1")},
          userId \in {NoUser, "idp_1"}, role \in {"admin", "user"},
          env \in {"production", "development"} :
          LET request == WebRequest(method, pathname, origin, "", token, token, NoToken)
              allowedOriginsEnv == {<<"https://", "app.example.com">>}
          IN  web' = [op |-> "middleware", request |-> request, userId |-> userId,
                      role |-> role, env |-> env,
                      allowedOriginsEnv |-> allowedOriginsEnv, now |-> 1,
                      out |-> middleware(request, userId, role, env,
                                         allowedOriginsEnv, 1)]
    /\ UNCHANGED <<users, received, hookvars, dbvars, api>>

----------------------------------------------------------------------------
(* The admin routes *)

\* auth() found no session
NoSession == "none"

\* authGuard({ requireAdmin: true }): a redirect to the sign-in page
\* (NextResponse.redirect: 307), a 403, or the caller's context
authGuard(userId, sessionId, role, clerkOk) ==
    IF userId = NoUser \/ sessionId = NoSession
    THEN [response |-> TRUE, status |-> 307]
    ELSE IF ~clerkOk
    THEN [response |-> TRUE, status |-> 307]
    ELSE IF role # "admin"
    THEN [response |-> TRUE, status |-> 403]
    ELSE [response |-> FALSE, status |-> 0]

\* GET /api/admin/users/{id}: authGuard; then connectDB and
\* userRepository.findByClerkId(id)
AdminGetUser(userId, sessionId, role, clerkOk, id, dbOk) ==
    LET auth == authGuard(userId, sessionId, role, clerkOk)
    IN  IF auth.response THEN [status |-> auth.status, dbRead |-> FALSE]
        ELSE IF ~dbOk THEN [status |-> 500, dbRead |-> TRUE]
        ELSE IF \E d \in findByClerkId(users, id) : Found(d)
        THEN [status |-> 200, dbRead |-> TRUE]
        ELSE [status |-> 404, dbRead |-> TRUE]

\* GET /api/admin/users: authGuard; then connectDB, the Clerk user list and
\* the local records
AdminListUsers(userId, sessionId, role, clerkOk, dbOk) ==
    LET auth == authGuard(userId, sessionId, role, clerkOk)
    IN  IF auth.response THEN [status |-> auth.status, dbRead |-> FALSE]
        ELSE IF ~dbOk THEN [status |-> 500, dbRead |-> TRUE]
        ELSE [status |-> 200, dbRead |-> TRUE]

CallAdminGetUser ==
    /\ web = NoCall
    /\ \E userId \in ClerkIds \cup {NoUser}, sessionId \in SessionIds \cup {NoSession},
          role \in {"admin", "user", Undefined}, clerkOk \in BOOLEAN,
          id \in ClerkIds, dbOk \in BOOLEAN :
          web' = [op |-> "admin", route |-> "users/[id]", userId |-> userId,
                  sessionId |-> sessionId, role |-> role, clerkOk |-> clerkOk,
                  out |-> AdminGetUser(userId, sessionId, role, clerkOk, id, dbOk)]
    /\ UNCHANGED <<users, received, hookvars, dbvars, api>>

CallAdminListUsers ==
    /\ web = NoCall
    /\ \E userId \in ClerkIds \cup {NoUser}, sessionId \in SessionIds \cup {NoSession},
          role \in {"admin", "user", Undefined}, clerkOk \in BOOLEAN,
          dbOk \in BOOLEAN :
          web' = [op |-> "admin", route |-> "users", userId |-> userId,
                  sessionId |-> sessionId, role |-> role, clerkOk |-> clerkOk,
                  out |-> AdminListUsers(userId, sessionId, role, clerkOk, dbOk)]
    /\ UNCHANGED <<users, received, hookvars, dbvars, api>>

\* one call of a guard or of an admin route, on a store the webhook left (the
\* guards keep no state between calls)
NextWeb ==
    \/ CallValidate
    \/ CallCreateThenValidate
    \/ CallCSRF
    \/ CallCORS
    \/ CallMiddleware
    \/ CallAdminGetUser
    \/ CallAdminListUsers

SpecWeb == InitConc /\ [][NextWeb]_vars

----------------------------------------------------------------------------
(* Properties *)

\* the request of the instance that serves the sequential deliveries
Req == reqs["i1"]

Done(r) == r.pc = "done"

ByClerkId(us, clerkId) == {d \in us : d.clerkId = clerkId}

ByEmail(us, email) == {d \in us : d.email = email}

Ids(us) == {d._id : d \in us}

\* the document of the collection with the given _id
Doc(us, id) == CHOOSE d \in us : d._id = id

\* log entries of one action for one user
Entries(l, id, action) ==
    {k \in 1..Len(l) : l[k].userId = id /\ l[k].action = action}

\* a document without its updatedAt
Unstamped(d) == [p \in DOMAIN d \ {"updatedAt"} |-> d[p]]

\* C1: whatever requests run, one after the other or against each other, no
\* two User documents have the same clerkId.
C1_UniqueClerkId ==
    \A d1, d2 \in users : d1._id # d2._id => d1.clerkId # d2.clerkId

\* C1 witness: two user.created for one identity id ran against each other,
\* one inserted the user and the unique index refused the other's insert.
C1_Witness ==
    \E i, j \in Instances :
        /\ i # j
        /\ Done(reqs[i]) /\ Done(reqs[j])
        /\ reqs[i].evt.type = "user.created" /\ reqs[j].evt.type = "user.created"
        /\ reqs[i].evt.id = reqs[j].evt.id
        /\ reqs[i].status = 200 /\ reqs[i].action = "user.created"
        /\ reqs[j].err = "dupkey" /\ reqs[j].at = "c_create"

\* C2: no two User documents have the same email.
C2_UniqueEmail ==
    \A d1, d2 \in users : d1._id # d2._id => d1.email # d2.email

\* C3: a creation event delivered again right after it was answered 200
\* changes neither the User collection nor the activity log; there is exactly
\* one User with its identity id, and (the log write of the first delivery
\* having succeeded) exactly one user.created entry for the user it created.
C3_IdempotentCreation ==
    (Done(Req) /\ Req.replay /\ Req.evt.type = "user.created") =>
        /\ users = Req.pre.users
        /\ log = Req.pre.log
        /\ Cardinality(ByClerkId(users, Req.evt.id)) = 1
        /\ \A d \in ByClerkId(users, Req.evt.id) :
              /\ d.status = "active"
              /\ Cardinality(Entries(log, d._id, "user.created")) <= 1
              /\ (Req.after.action = "user.created" /\ Req.after.logged = "ok")
                    => Cardinality(Entries(log, d._id, "user.created")) = 1

\* C3 witness: the first delivery created the user and logged it, the second
\* was answered 200.
C3_Witness ==
    /\ Done(Req) /\ Req.replay /\ Req.evt.type = "user.created"
    /\ Req.status = 200
    /\ Req.after.action = "user.created" /\ Req.after.logged = "ok"

\* the creation event that follows, answered 200, a deletion event for the same,
\* known identity id that was answered 200
DeletedThenCreated ==
    /\ Done(Req) /\ Req.evt.type = "user.created" /\ Req.status = 200
    /\ Req.after.type = "user.deleted" /\ Req.after.id = Req.evt.id
    /\ Req.after.status = 200 /\ Req.after.known

\* C4: a deletion event followed by a creation event with the same identity
\* id, for a User that exists: the deletion left the document inactive, the
\* creation sets that same document back to active, and there are as many
\* User documents after the pair as before it.
C4_Reactivation ==
    DeletedThenCreated =>
        /\ Cardinality(users) = Req.after.count
        /\ \E d \in ByClerkId(Req.pre.users, Req.evt.id) :
              /\ d.status = "inactive"
              /\ d._id \in Ids(users)
              /\ Doc(users, d._id).status = "active"
              /\ Doc(users, d._id).clerkId = Req.evt.id

\* C4 witness: the pair has been processed, and the reactivation was logged.
C4_Witness == DeletedThenCreated /\ Req.action = "user.reactivated"

\* a creation event, answered 200, whose identity id matched no User and whose
\* primary email matched one
RelinkCase ==
    /\ Done(Req) /\ Req.evt.type = "user.created" /\ Req.status = 200
    /\ ByClerkId(Req.pre.users, Req.evt.id) = {}
    /\ ByEmail(Req.pre.users, Req.evt.email) # {}

\* C5: such an event overwrites the clerkId of a User with that email with the
\* event's id, sets it active, calls the log with user.relinked for it (the
\* entry is appended unless that write fails), changes no other document, and
\* leaves the number of documents as it was.
C5_Relink ==
    RelinkCase =>
        /\ Cardinality(users) = Cardinality(Req.pre.users)
        /\ Req.action = "user.relinked"
        /\ Req.logged \in {"ok", "failed"}
        /\ \E d \in ByEmail(Req.pre.users, Req.evt.email) :
              /\ Req.doc._id = d._id
              /\ users = Replace(Req.pre.users, d,
                            [d EXCEPT !.clerkId = Req.evt.id, !.status = "active",
                                      !.updatedAt = Doc(users, d._id).updatedAt])
              /\ Req.logged = "ok" =>
                    log = Append(Req.pre.log,
                             [userId |-> d._id, action |-> "user.relinked",
                              session |-> "none"])
              /\ Req.logged = "failed" => log = Req.pre.log

\* C5 witness: an inactive User was re-linked and the entry written.
C5_Witness ==
    /\ RelinkCase
    /\ Req.logged = "ok"
    /\ \E d \in ByEmail(Req.pre.users, Req.evt.email) : d.status = "inactive"

\* an update event, answered 200, for an identity id that matched a User
UpdateCase ==
    /\ Done(Req) /\ Req.evt.type = "user.updated" /\ Req.status = 200
    /\ ByClerkId(Req.pre.users, Req.evt.id) # {}

\* C6: after an update event on an existing User, each of firstName, lastName,
\* username and avatar is the event's value when that is non-empty, and the
\* value stored before otherwise.
C6_UpdateFallback ==
    UpdateCase =>
        \A d \in ByClerkId(Req.pre.users, Req.evt.id) : \A f \in NameFields :
            Get(Doc(users, d._id), f) =
                IF Truthy(Req.evt.profile[f]) THEN Req.evt.profile[f] ELSE Get(d, f)

\* a deletion event, answered 200, for an identity id that matched a User
DeletionCase ==
    /\ Done(Req) /\ Req.evt.type = "user.deleted" /\ Req.status = 200
    /\ ByClerkId(Req.pre.users, Req.evt.id) # {}

\* C7: no step of any request removes a User document, and a deletion event
\* for a known identity id leaves its document in the collection, inactive.
C7_NeverHardDeleted ==
    /\ [][Ids(users) \subseteq Ids(users')]_vars
    /\ [](DeletionCase =>
            \A d \in ByClerkId(Req.pre.users, Req.evt.id) :
                /\ d._id \in Ids(users)
                /\ Doc(users, d._id).status = "inactive"
                /\ Doc(users, d._id).clerkId = d.clerkId)

\* C7 witness: a deletion event for a known, active user has been processed.
C7_Witness ==
    /\ DeletionCase
    /\ \E d \in ByClerkId(Req.pre.users, Req.evt.id) : d.status = "active"

\* a deletion event delivered again, answered 200, for a User already inactive
SecondDeletion ==
    /\ DeletionCase /\ Req.replay
    /\ \A d \in ByClerkId(Req.pre.users, Req.evt.id) : d.status = "inactive"

\* C8 as claimed: the second deletion changes no field of any User document.
C8_SecondDeletionNoOp == SecondDeletion => users = Req.pre.users

\* C8 amended: the second deletion leaves the status inactive and changes no
\* field of any User document other than the updatedAt of that user's document.
C8_SecondDeletionKeepsFields ==
    SecondDeletion =>
        /\ Ids(users) = Ids(Req.pre.users)
        /\ \A d \in Req.pre.users :
              /\ Unstamped(Doc(users, d._id)) = Unstamped(d)
              /\ d.clerkId # Req.evt.id => Doc(users, d._id) = d
              /\ d.clerkId = Req.evt.id => Doc(users, d._id).status = "inactive"

\* C8 witness: the second deletion has been processed and has bumped updatedAt.
C8_Witness ==
    /\ SecondDeletion
    /\ \E d \in ByClerkId(Req.pre.users, Req.evt.id) :
          Doc(users, d._id).updatedAt # d.updatedAt

\* a POST with a body that lacks a svix header or whose signature does not verify
Unverified(r) ==
    /\ r.http.method = "POST" /\ r.http.payload
    /\ (r.http.headers # SvixHeaders \/ ~r.http.sigOk)

\* C9: such a request is answered 400 at once: it never runs past the
\* verification, no handler is called, and the User collection and the
\* activity log are as they were when it arrived.
C9_UnverifiedRejected ==
    \A i \in Instances :
        (reqs[i].pc # "idle" /\ Unverified(reqs[i])) =>
            /\ Done(reqs[i])
            /\ reqs[i].status = 400
            /\ reqs[i].handler = "none"
            /\ i = "i1" => (users = Req.pre.users /\ log = Req.pre.log)

\* C9 witness: a request with a svix header missing, and one with a bad
\* signature, arrive when there are users in the store.
C9_Witness ==
    /\ Unverified(Req) /\ Done(Req) /\ Req.status = 400
    /\ ~Req.http.sigOk
    /\ users # {}

\* C10: when a verified event is answered 500, the User collection is as it
\* was when the request arrived.
C10_NoPartialApply ==
    (Done(Req) /\ Req.status = 500) => users = Req.pre.users

\* C10 witness: a handler failed at its write to the User collection, with
\* users in the store.
C10_Witness ==
    /\ Done(Req) /\ Req.status = 500
    /\ Req.at \in {"c_create", "c_relink", "c_reactivate", "u_update", "d_update"}
    /\ Req.pre.users # {}

\* a request whose activity-log write failed
LogWriteFailed == Done(Req) /\ Req.logged = "failed"

\* C11: in every branch that writes an activity-log entry, a failure of that
\* write leaves the log as it was, the request is still answered 200, and the
\* change the branch made to the User collection is in the collection.
C11_LogFailureTolerated ==
    LogWriteFailed =>
        /\ Req.status = 200
        /\ log = Req.pre.log
        /\ Req.action \in {"user.created", "user.reactivated", "user.relinked",
                           "user.updated", "user.deleted",
                           "session.created", "session.removed"}
        /\ Req.action \in {"session.created", "session.removed"} =>
              users = Req.pre.users
        /\ Req.action = "user.created" =>
              \E d \in users :
                  /\ d._id \notin Ids(Req.pre.users)
                  /\ d.clerkId = Req.evt.id /\ d.status = "active"
                  /\ users = Req.pre.users \cup {d}
        /\ Req.action = "user.reactivated" =>
              \E d \in ByClerkId(Req.pre.users, Req.evt.id) :
                  /\ d.status = "inactive"
                  /\ users = Replace(Req.pre.users, d,
                                [d EXCEPT !.status = "active", !.updatedAt = Now])
        /\ Req.action = "user.relinked" =>
              \E d \in ByEmail(Req.pre.users, Req.evt.email) :
                  users = Replace(Req.pre.users, d,
                             [d EXCEPT !.clerkId = Req.evt.id, !.status = "active",
                                       !.updatedAt = Now])
        /\ Req.action = "user.updated" =>
              \E d \in ByClerkId(Req.pre.users, Req.evt.id) :
                  users = Replace(Req.pre.users, d,
                             [d EXCEPT !.email = Req.evt.email,
                                       !.updatedAt = Req.evt.updated_at])
        /\ Req.action = "user.deleted" =>
              \E d \in ByClerkId(Req.pre.users, Req.evt.id) :
                  users = Replace(Req.pre.users, d,
                             [d EXCEPT !.status = "inactive", !.updatedAt = Now])

\* C11 witness: a reactivation whose log write failed.
C11_Witness == LogWriteFailed /\ Req.action = "user.reactivated"

HandledTypes ==
    {"user.created", "user.updated", "user.deleted",
     "session.created", "session.removed"}

\* a verified event of a type the switch does not know has been answered
UnknownTypeCase ==
    /\ Done(Req) /\ Ingress(Req.http) = 0
    /\ Req.evt.type \notin HandledTypes

UpdateUnknownCase ==
    /\ Done(Req) /\ Req.evt.type = "user.updated" /\ Req.status = 200
    /\ ByClerkId(Req.pre.users, Req.evt.id) = {}

\* a creation event, answered 200
CreationCase == Done(Req) /\ Req.evt.type = "user.created" /\ Req.status = 200

\* the _id the store had to hand out when the request arrived
IdOnArrival ==
    IF Cardinality(users) > Cardinality(Req.pre.users) THEN nextId - 1 ELSE nextId

\* a creation and an update event for one identity id, unknown before the
\* first of them, delivered one after the other in either order, both answered 200
NewIdentityPair ==
    /\ Done(Req) /\ Req.status = 200 /\ Req.after.status = 200
    /\ Req.after.id = Req.evt.id /\ ~Req.after.known
    /\ {Req.after.type, Req.evt.type} = {"user.created", "user.updated"}

\* C13: an update event for an identity id that matches no User leaves the
\* User collection and the activity log as handleUserCreated leaves them for
\* the same payload, which is also what a creation event does; and after
\* update-then-create or create-then-update for a new identity there is
\* exactly one User with that id, and it is active.
C13_UpdateUnknownIsCreate ==
    /\ (UpdateUnknownCase \/ CreationCase) =>
          [users |-> users, log |-> log] \in
              handleUserCreated(Req.pre.users, Req.pre.log, Req.evt, IdOnArrival, Now)
    /\ NewIdentityPair =>
          /\ Cardinality(ByClerkId(users, Req.evt.id)) = 1
          /\ \A d \in ByClerkId(users, Req.evt.id) : d.status = "active"

\* C13 witness: an update event for an unknown id created the user, after a
\* creation event for another identity.
C13_Witness ==
    /\ UpdateUnknownCase
    /\ Req.action = "user.created" /\ Req.logged = "ok"
    /\ Req.pre.users # {}

\* a verified session event has been answered
SessionCase ==
    /\ Done(Req) /\ Ingress(Req.http) = 0
    /\ Req.evt.type \in {"session.created", "session.removed"}

\* C14: a session event changes no User document; when its user_id matches no
\* User the log is unchanged too; when it matches one, one entry with that
\* user, the event type and the session id is appended (unless that write
\* fails), and nothing else is logged.
C14_SessionEvents ==
    SessionCase =>
        /\ users = Req.pre.users
        /\ ByClerkId(Req.pre.users, Req.evt.id) = {} =>
              (log = Req.pre.log /\ Req.logged = "none")
        /\ Req.logged # "ok" => log = Req.pre.log
        /\ Req.logged = "ok" =>
              \E d \in ByClerkId(Req.pre.users, Req.evt.id) :
                  log = Append(Req.pre.log,
                           [userId |-> d._id, action |-> Req.evt.type,
                            session |-> Req.evt.session])
        /\ (ByClerkId(Req.pre.users, Req.evt.id) # {} /\ Req.status = 200) =>
              Req.logged \in {"ok", "failed"}

\* C14 witness: session.removed for a known user has been logged.
C14_Witness ==
    /\ SessionCase /\ Req.evt.type = "session.removed"
    /\ Req.logged = "ok" /\ Req.evt.session \in SessionIds

\* a verified creation or update event with no primary e-mail has been answered
NoPrimaryCase ==
    /\ Done(Req) /\ Ingress(Req.http) = 0
    /\ Req.evt.type \in {"user.created", "user.updated"}
    /\ Req.evt.email = NoPrimary

\* C15: such an event is answered 500, with the validation error once the
\* store is connected, and changes neither the User collection nor the
\* activity log, whatever users there were.
C15_NoPrimaryEmail ==
    NoPrimaryCase =>
        /\ Req.status = 500
        /\ Req.at = "connect"
        /\ Req.err \in {"validation", "db"}
        /\ users = Req.pre.users
        /\ log = Req.pre.log

\* C15 witness: an update event without primary e-mail for a known user
\* failed the validation.
C15_Witness ==
    /\ NoPrimaryCase /\ Req.evt.type = "user.updated"
    /\ Req.err = "validation"
    /\ ByClerkId(Req.pre.users, Req.evt.id) # {}

\* C16: at most one mongoose.connect attempt is in flight at any time; the
\* callers waiting for an attempt in flight all wait for the promise held in
\* cached.promise; and once a connection is cached it stays cached and no
\* step calls mongoose.connect again.
C16_OneConnectInFlight ==
    /\ [](Cardinality(InFlight) <= 1)
    /\ [](\A k \in Callers :
            (callers[k].pc = "awaiting" /\ callers[k].p \in InFlight) =>
                callers[k].p = cached.promise)
    /\ [][cached.conn # NoConn =>
            (Len(promises') = Len(promises) /\ cached'.conn = cached.conn)]_vars

\* C16 witness: after a failed attempt, two callers wait for the one attempt
\* in flight while the third has been thrown the failure.
C16_Witness ==
    \E k1, k2, k3 \in Callers :
        /\ k1 # k2
        /\ callers[k1].pc = "awaiting" /\ callers[k2].pc = "awaiting"
        /\ callers[k1].p = callers[k2].p
        /\ callers[k1].p \in InFlight /\ callers[k1].p > 1
        /\ callers[k3].pc = "thrown"

\* C17 as claimed: a creation whose insert is refused by the unique index on
\* clerkId, because a concurrent creation for the same identity inserted
\* first, is answered 200.
C17_DuplicateInsertAcknowledged ==
    \A i \in Instances :
        (/\ Done(reqs[i]) /\ reqs[i].evt.type = "user.created"
         /\ reqs[i].at = "c_create" /\ reqs[i].err = "dupkey") =>
            reqs[i].status = 200

\* a PUT from a signed-in user has been answered
PutCase == api.pc = "done" /\ api.method = "PUT" /\ api.userId # NoUser

\* C18 as claimed: a PUT whose body has a key other than email, name, role,
\* plan, status is answered 400 and updates no User document.
C18_UnknownFieldRejected ==
    (PutCase /\ DOMAIN api.body \ BodyFields # {}) =>
        (api.status = 400 /\ users = api.pre)

\* the documents of the caller of the self-service request
Own(us) == {d \in us : d.clerkId = api.userId}

\* C19: a self-service request leaves every document of another user as it
\* was; DELETE answered 204 removes the caller's document and nothing else;
\* PUT answered 200 sets the validated fields (and updatedAt) on the caller's
\* document and nothing else; a call without a signed-in user is answered 401;
\* every answer other than 200 and 204 leaves the collection unchanged.
C19_SelfServiceTouchesOwn ==
    api.pc = "done" =>
        /\ api.userId = NoUser => (api.status = 401 /\ users = api.pre)
        /\ \A d \in api.pre : d.clerkId # api.userId => d \in users
        /\ users \ api.pre \subseteq Own(users)
        /\ Cardinality(Own(api.pre)) <= 1
        /\ (api.method = "DELETE" /\ api.status = 204) =>
              users = api.pre \ Own(api.pre)
        /\ (api.method = "PUT" /\ api.status = 200) =>
              /\ Ids(users) = Ids(api.pre)
              /\ \A d \in Own(api.pre) :
                    /\ Doc(users, d._id).clerkId = d.clerkId
                    /\ \A f \in DOMAIN api.data : Doc(users, d._id)[f] = api.data[f]
                    /\ \A f \in DOMAIN d \ (DOMAIN api.data \cup {"updatedAt"}) :
                          Doc(users, d._id)[f] = d[f]
        /\ api.status \notin {200, 204} => users = api.pre

\* C19 witness: with two users in the store, one of them deleted their
\* account and the other's document is still there.
C19_Witness ==
    /\ api.pc = "done" /\ api.method = "DELETE" /\ api.status = 204
    /\ Cardinality(api.pre) = 2 /\ Own(api.pre) # {}
    /\ Cardinality(users) = 1

\* C20 as claimed: when an update event is about to write on the strength of
\* a document it read before another update event for the same identity
\* wrote (and was answered 200), the value it sends for a profile field that
\* it does not supply itself, its fallback, is not the stale one: it is the
\* non-empty value the other event supplied for that field.
C20_NoStaleFallback ==
    \A i, j \in Instances :
        (/\ i # j
         /\ Done(reqs[i]) /\ reqs[i].status = 200 /\ reqs[i].action = "user.updated"
         /\ reqs[j].pc = "u_update" /\ reqs[j].evt.id = reqs[i].evt.id
         /\ reqs[j].existing \notin users) =>
            \A f \in NameFields :
                (Truthy(reqs[i].evt.profile[f]) /\ ~Truthy(reqs[j].evt.profile[f])) =>
                    UpdateData(reqs[j].evt, reqs[j].existing)[f] = reqs[i].evt.profile[f]

\* the new-user branch of a creation event in which the sync with Clerk failed
ClerkFailedCase == Done(Req) /\ Req.clerk = "failed"

\* C21: on the new-user branch, a failure of getUser or updateUser does not
\* fail the handler: the request is answered 200, the User created is in the
\* collection, and logUserActivity is called for user.created (its entry is
\* appended unless that write fails).
C21_ClerkFailureSwallowed ==
    ClerkFailedCase =>
        /\ Req.status = 200
        /\ Req.action = "user.created"
        /\ Req.doc \in users /\ Req.doc._id \notin Ids(Req.pre.users)
        /\ Req.doc.clerkId = Req.evt.id
        /\ Req.logged \in {"ok", "failed"}
        /\ Req.logged = "ok" =>
              log = Append(Req.pre.log,
                       [userId |-> Req.doc._id, action |-> "user.created",
                        session |-> "none"])

\* C21 witness: the sync failed, the user is created and the entry written.
C21_Witness == ClerkFailedCase /\ Req.status = 200 /\ Req.logged = "ok"

\* C22 as claimed: in the user.updated log call, the flag of each profile
\* field is true exactly when the stored value of the field after the update
\* differs from the stored value before it.
C22_ChangeMapExact ==
    (Done(Req) /\ Req.action = "user.updated" /\ Req.status = 200) =>
        \A d \in ByClerkId(Req.pre.users, Req.evt.id) : \A f \in NameFields :
            Req.changes[f] = (Get(Doc(users, d._id), f) # Get(d, f))

\* C23: a caller resumed by a rejected attempt is thrown the error, and with
\* it cached.promise is reset while cached.conn stays null; when no
\* continuation is waiting to run, cached.promise never holds a rejected
\* promise and cached.conn never comes from one; and a call that goes on to
\* wait, waits for an attempt in flight, never for a rejected promise.
C23_FailureResetsCache ==
    /\ [](jobs = <<>> =>
            /\ cached.promise # NoPromise =>
                  promises[cached.promise].state # "rejected"
            /\ \A k \in Callers : callers[k].pc = "awaiting" =>
                  callers[k].p \in InFlight)
    /\ [](cached.conn # NoConn => promises[cached.conn].state = "fulfilled")
    /\ [][\A k \in Callers :
            (/\ callers[k].pc = "awaiting"
             /\ promises[callers[k].p].state = "rejected"
             /\ callers'[k] # callers[k]) =>
                /\ callers'[k].pc = "thrown"
                /\ cached'.conn = NoConn /\ cached'.promise = NoPromise]_vars
    /\ [][\A k \in Callers :
            (callers[k].pc # "awaiting" /\ callers'[k].pc = "awaiting") =>
                /\ callers'[k].p \in {p \in 1..Len(promises') :
                                        promises'[p].state = "pending"}
                /\ (cached.promise = NoPromise => Len(promises') = Len(promises) + 1)]_vars

\* C23 witness: two callers were thrown the failure of the first attempt, and
\* a call made after it waits for a second attempt.
C23_Witness ==
    \E k1, k2, k3 \in Callers :
        /\ k1 # k2
        /\ callers[k1].pc = "thrown" /\ callers[k2].pc = "thrown"
        /\ promises[1].state = "rejected" /\ Len(promises) = 2
        /\ callers[k3].pc = "awaiting" /\ callers[k3].p = 2
        /\ cached.conn = NoConn /\ cached.promise = 2

\* C29 as claimed: no step of a webhook request sets a User whose status is
\* banned or suspended to active.
C29_BannedNeverActivated ==
    [][\A d \in users :
          (d.status \in {"banned", "suspended"} /\ Running(Req)) =>
              \A n \in users' : n._id = d._id => n.status # "active"]_vars

C26_TokenValidation ==
    web.op = "validateTimestampedToken" =>
        /\ web.out =>
              /\ Len(web.token) >= 2
              /\ web.token[1].numeric
              /\ web.now - web.token[1].int <= MaxAge
              /\ web.token[2].len = 64
        /\ (Len(web.token) >= 1 /\ ~web.token[1].numeric) => ~web.out
        /\ (Len(web.token) >= 1 /\ web.token[1].numeric
               /\ web.now - web.token[1].int > MaxAge) => ~web.out
        /\ (web.made # NaN /\ web.now - web.made <= MaxAge) => web.out

\* the request token of C25: the x-csrf-token header or, for a POST without
\* one, the csrf-token form field
RequestToken(request) ==
    IF request.header # NoToken THEN request.header
    ELSE IF request.method = "POST" THEN request.form ELSE NoToken

\* a state-changing request to a path that is not a webhook path
CsrfCase ==
    /\ web.op = "withCSRFProtection"
    /\ web.request.method \notin {"GET", "HEAD", "OPTIONS"}
    /\ ~Includes(web.request.pathname, <<"/", "webhooks", "/">>)

\* C25: for a method other than GET, HEAD, OPTIONS on a non-webhook path,
\* withCSRFProtection calls the handler only if the cookie token and the
\* request token are both present, equal, and a timestamped token that is
\* not expired; otherwise it answers 403 without calling the handler.
C25_CsrfGuard ==
    CsrfCase =>
        LET ok == /\ web.request.cookie # NoToken
                  /\ RequestToken(web.request) # NoToken
                  /\ web.request.cookie = RequestToken(web.request)
                  /\ validateTimestampedToken(web.request.cookie, web.now)
        IN  /\ web.out.called <=> ok
            /\ ok => web.out.response = web.handler
            /\ ~ok => web.out.response.status = 403

\* C25 witness: a POST without the header whose form field carries the
\* cookie's token is let through to the handler.
C25_Witness ==
    /\ CsrfCase /\ web.request.method = "POST"
    /\ web.request.header = NoToken /\ web.request.form = web.request.cookie
    /\ web.out.called /\ web.out.response.status = 200

\* C24 as claimed: a request whose path starts with /api/ (other than
\* /api/csrf) passes through CORS and then CSRF before the route; one with a
\* disallowed Origin, or a state-changing one without a valid CSRF token, is
\* answered 403 and does not reach the route.
C24_ApiGuardChain ==
    (/\ web.op = "middleware"
     /\ StartsWith(web.request.pathname, <<"/", "api", "/">>)
     /\ web.request.pathname # <<"/", "api", "/", "csrf">>) =>
        LET request == web.request
            config == getCORSConfig(web.env, web.allowedOriginsEnv)
            badOrigin == ~isOriginAllowed(request.origin, config.allowedOrigins, web.env)
            badToken == /\ request.method \notin {"GET", "HEAD", "OPTIONS"}
                        /\ ~Includes(request.pathname, <<"/", "webhooks", "/">>)
                        /\ ~validateCSRFToken(request, web.now)
        IN  /\ web.out.guards # <<>> /\ web.out.guards[1] = "cors"
            /\ (badOrigin \/ badToken) =>
                  ~web.out.reached /\ web.out.response.status = 403

\* the origins C27 lets through: no Origin header, an origin of the
\* configured list or, when NODE_ENV is development, one that mentions
\* localhost or 127.0.0.1
Permitted(origin, env, allowedOriginsEnv) ==
    \/ origin = NoOrigin
    \/ origin \in (IF env = "production" THEN allowedOriginsEnv ELSE DevOrigins)
    \/ env = "development" /\ \E k \in 1..Len(origin) : origin[k] \in {"localhost", "127.0.0.1"}

\* a request other than OPTIONS sent through withCORSProtection
CorsCase == web.op = "withCORSProtection" /\ web.request.method # "OPTIONS"

\* C27, amended: withCORSProtection does not call the handler for a
\* non-OPTIONS request whose Origin is neither in the allowed list nor, in
\* development, a localhost origin, and answers it 403; every other
\* non-OPTIONS request reaches the handler; and Access-Control-Allow-Origin
\* is never "*": it is the request's permitted origin or it is not set.
C27_CorsGuard ==
    /\ CorsCase =>
          IF Permitted(web.request.origin, web.env, web.allowedOriginsEnv)
          THEN web.out.called /\ web.out.response.status = web.handler.status
          ELSE ~web.out.called /\ web.out.response.status = 403
    /\ web.op = "withCORSProtection" =>
          /\ web.out.response.allowOrigin # "*"
          /\ web.out.response.allowOrigin # NotSet =>
                /\ web.out.response.allowOrigin = web.request.origin
                /\ Permitted(web.request.origin, web.env, web.allowedOriginsEnv)
                /\ web.out.response.status \notin {403, 405}

\* C27 as claimed: the handler is never called for a non-OPTIONS request
\* whose Origin is outside the allowed list.
C27_ListedOriginsOnly ==
    (/\ CorsCase
     /\ web.request.origin # NoOrigin
     /\ web.request.origin \notin
           getCORSConfig(web.env, web.allowedOriginsEnv).allowedOrigins) =>
        ~web.out.called /\ web.out.response.status = 403

\* C27 witness: a request from an origin outside the list was refused, in
\* production, although the origin names localhost.
C27_Witness ==
    /\ CorsCase /\ web.env = "production"
    /\ web.request.origin = <<"http://", "localhost", ":8080">>
    /\ ~web.out.called /\ web.out.response.status = 403
    /\ web.out.response.allowOrigin = NotSet

\* C28 as claimed: the admin routes answer 401 to a caller who is not
\* authenticated and 403 to an authenticated caller who is not an admin,
\* both without a database read.
C28_AdminGuard ==
    web.op = "admin" =>
        /\ (web.userId = NoUser \/ web.sessionId = NoSession) =>
              web.out.status = 401 /\ ~web.out.dbRead
        /\ (web.userId # NoUser /\ web.sessionId # NoSession /\ web.clerkOk
               /\ web.role # "admin") =>
              web.out.status = 403 /\ ~web.out.dbRead

====
